---- MODULE Spec2Model ----
(***************************************************************************)
(* Model of harborclient.client.HTTPClient: the authenticated request      *)
(* pipeline (authenticate, unauthenticate, request, _time_request,         *)
(* _cs_request and the verb wrappers get/post/put/delete).                  *)
(*                                                                         *)
(* The HTTP transport (the requests library) and the server are the        *)
(* environment: every request the client sends is appended to the calling  *)
(* operation's `wire`, and the responses are inputs.  When the server      *)
(* answers the first attempt of a verb call with a failure that the call   *)
(* recovers from, it also fixes what it will answer to the retry (`retry`).*)
(***************************************************************************)
EXTENDS Integers, Sequences, FiniteSets, TLC

\* ------------------------------------------------------------------ bounds
MaxOps == 2            \* public operations invoked on the instance per run
MaxLog == 2            \* debug lines emitted before no new operation starts

\* ------------------------------------------------------------------ values
None == "None"                      \* Python None
Absent == "absent"                  \* a keyword argument that is not passed
Callers == {1, 2}                   \* threads that may drive the instance
Tokens == {"s1", "s2"}              \* beegosessionID values the server issues
Urls == {"/projects"}
Bodies == {Absent, "dict(id=2)"}    \* the body option: not passed, or a dict
CredValues(v) == {None, "", v}      \* absent, empty, set

Truthy(v) == v \notin {None, ""}    \* Python truth value of None / str

\* response bodies (resp.text) as sequences of words; <<>> is the empty text
EmptyText == <<>>
JsonText == <<"{\"id\": 2}">>
HtmlText == <<"<html>", "oops">>
RefusedText == <<"dial", "Connection refused", "by", "peer">>
ActivelyText == <<"target", "machine", "actively refused", "it">>

Response(s, t, r) == [status |-> s, text |-> t, reqid |-> r]

\* what the server may answer to an API request
Responses ==
  { Response(200, JsonText, "req-1"),
    Response(200, EmptyText, None),
    Response(401, JsonText, "req-2"),
    Response(500, HtmlText, None),
    Response(400, JsonText, "req-1"),
    Response(400, RefusedText, "req-2"),
    Response(400, ActivelyText, None) }

NoResponse == Response(0, EmptyText, None)

\* what the server may have in store for a retry: success or 401 again
RetryResponses == {r \in Responses : r.status \in {200, 401} /\ r.text = JsonText}

\* what the server may answer to POST /login: status and Set-Cookie value
LoginResponses ==
  [status : {200}, cookie : Tokens \cup {None}] \cup [status : {401}, cookie : {None}]

VARIABLES
  username, password, baseurl,   \* credentials and endpoint (__init__)
  timings, http_log_debug,       \* constructor flags
  times,                         \* self.times
  session_id,                    \* self.session_id
  attrs,                         \* names of the attributes set on the instance
  last_request_id,               \* self.last_request_id (when in attrs)
  log,                           \* lines emitted by self._logger.debug
  nops,                          \* operations invoked so far
  call                           \* per caller: the operation in progress

vars == <<username, password, baseurl, timings, http_log_debug, times,
          session_id, attrs, last_request_id, log, nops, call>>

config == <<username, password, baseurl, timings, http_log_debug>>

\* ------------------------------------------------------------- exceptions
\* a raised exception: its class, the function that raised it, the API attempt
\* of the call during which it was raised (its identity), the HTTP status it
\* was built from (0 if none) and its message
Exc(cls, origin, attempt, status, detail) ==
  [cls |-> cls, origin |-> origin, attempt |-> attempt, status |-> status,
   detail |-> detail]
NoExc == Exc(None, None, 0, 0, None)

NoResult == [returned |-> FALSE, status |-> 0, body |-> None]
Result(resp, body) == [returned |-> TRUE, status |-> resp.status, body |-> body]


\* ------------------------------------------------------------ pure helpers
\* the words of `seq` contain `word`  ('...' in resp.text)
Contains(seq, word) == \E i \in 1..Len(seq) : seq[i] = word

\* mutant: only one of the two refusal texts is looked for
IsRefusedFirstTextOnly(text) == Contains(text, "Connection refused")

\* 'Connection refused' in resp.text or 'actively refused' in resp.text
IsRefused(text) ==
  Contains(text, "Connection refused") \/ Contains(text, "actively refused")

\* json.loads: the decoded structure, or "ValueError" for text that is no JSON
JsonLoads(text) ==
  IF text = JsonText THEN "dict(id=2)" ELSE "ValueError"

\* body of request(): json.loads(resp.text), None on ValueError or empty text
ParseBody(resp) ==
  IF resp.text # EmptyText
    THEN IF JsonLoads(resp.text) = "ValueError" THEN None
         ELSE JsonLoads(resp.text)
    ELSE None

\* exceptions.from_response: the failure class of an HTTP status
FromResponse(resp, attempt) ==
  Exc(CASE resp.status = 401 -> "Unauthorized"
        [] resp.status = 400 -> "BadRequest"
        [] resp.status = 404 -> "NotFound"
        [] OTHER -> "ClientException",
      "request", attempt, resp.status, None)

\* mutant: self.last_request_id is set only after the status check
RequestOutcomeIdAfterRaise(resp, attempt) ==
  IF resp.text # EmptyText /\ resp.status = 400 /\ IsRefused(resp.text)
    THEN [raised |-> Exc("ConnectionRefused", "request", attempt, resp.status,
                           "resp.text"),
          body |-> None, setsId |-> FALSE]
    ELSE [raised |-> IF resp.status >= 400 THEN FromResponse(resp, attempt)
                     ELSE NoExc,
          body |-> ParseBody(resp), setsId |-> resp.status < 400]

\* what request() does with a response: the failure it raises (NoExc when it
\* returns), the parsed body, and whether it got as far as setting
\* self.last_request_id
RequestOutcome(resp, attempt) ==
  IF resp.text # EmptyText /\ resp.status = 400 /\ IsRefused(resp.text)
    THEN [raised |-> Exc("ConnectionRefused", "request", attempt, resp.status,
                           "resp.text"),
          body |-> None, setsId |-> FALSE]
    ELSE [raised |-> IF resp.status >= 400 THEN FromResponse(resp, attempt)
                     ELSE NoExc,
          body |-> ParseBody(resp), setsId |-> TRUE]

\* mutant: the handler catches every failure of the first attempt
CatchesAnyFailure(exc) == TRUE

\* `except exceptions.Unauthorized` of _cs_request
Catches(exc) == exc.cls = "Unauthorized"

\* mutant: the password check is left out
MissingFieldNoPassword(b, u, p) ==
  IF ~Truthy(b) THEN "baseurl"
  ELSE IF ~Truthy(u) THEN "username"
  ELSE None

\* the three checks at the top of authenticate(): the field whose absence
\* makes it raise AuthorizationFailure, None when all are set
MissingField(b, u, p) ==
  IF ~Truthy(b) THEN "baseurl"
  ELSE IF ~Truthy(u) THEN "username"
  ELSE IF ~Truthy(p) THEN "password"
  ELSE None

\* mutant: the cookie of the login response is never stored
LoginSessionNotStored(resp, old) == old

\* mutant: the cookie of the login response is stored whatever the status
LoginSessionAnyStatus(resp, old) == resp.cookie

\* authenticate() on the login response: the new self.session_id
LoginSession(resp, old) == IF resp.status = 200 THEN resp.cookie ELSE old

\* utils.record_time: one entry appended when timing is on and the timed
\* block did not raise
RecordTime(ts, enabled, method, url, raised) ==
  IF enabled /\ raised = NoExc THEN Append(ts, <<method, url>>) ELSE ts

\* mutant: _time_request records whether or not timing is enabled
TimeRequestAlways(ts, enabled, method, url, raised) ==
  RecordTime(ts, TRUE, method, url, raised)

\* _time_request: request() inside `with utils.record_time(self.times,
\* self.timings, method, url)`
TimeRequest(ts, enabled, method, url, raised) ==
  RecordTime(ts, enabled, method, url, raised)

\* url = self.baseurl + "/api" + url
FullUrl(b, url) == b \o "/api" \o url

\* hashlib.sha1(value).hexdigest()
Sha1Hex(v) == CASE v = "s1" -> "bb2d3ad9" [] v = "s2" -> "8f0e9d1c"
                [] OTHER -> "da39a3ee"

\* _redact on a one-level path: the value stored under the key afterwards
Redact(value, text) ==
  IF Truthy(text) THEN text
  ELSE IF value # None THEN "{SHA1}" \o Sha1Hex(value)
  ELSE value

\* json.dumps of a parsed body
JsonDumps(v) == IF v = None THEN "null" ELSE "{\"id\": 2}"

\* request() on the body option: Content-Type is set, the body is serialized
\* into data and the body option itself is deleted
RequestKwargs(body) ==
  IF body # Absent
    THEN [ctype |-> "application/json", data |-> JsonDumps(body),
          body |-> Absent]
    ELSE [ctype |-> Absent, data |-> Absent, body |-> Absent]

\* http_log_req: the parts of the REQ line, headers sorted by name, then the
\* cookies as passed, then the data decoded and encoded again
HttpLogReq(method, url, cookie, kw) ==
  <<"curl -g -i", url, "-X", method,
    "-H", "Accept", "application/json">>
  \o (IF kw.ctype # Absent THEN <<"-H", "Content-Type", kw.ctype>> ELSE <<>>)
  \o <<"-H", "User-Agent", "python-harborclient",
       "-b", "beegosessionID", cookie>>
  \o (IF kw.data # Absent THEN <<"-d", JsonDumps(JsonLoads(<<kw.data>>))>>
      ELSE <<>>)

\* http_log_resp: body parsed unless the text is empty or the status is 400
HttpLogResp(resp) ==
  <<"RESP", ToString(resp.status),
    JsonDumps(IF resp.text # EmptyText /\ resp.status # 400
                THEN ParseBody(resp) ELSE None)>>

\* self._logger.debug, reached only when http_log_debug is set
Debug(lg, enabled, line) == IF enabled THEN Append(lg, line) ELSE lg

\* ------------------------------------------------------------------ state
\* attributes __init__ sets on the instance
InitAttrs == {"username", "password", "baseurl", "api_version", "timings",
              "http_log_debug", "timeout", "times", "_logger", "session_id"}

IdleCall ==
  [op |-> "idle", pc |-> "idle", method |-> None, url |-> None,
   body |-> Absent,
   attempt |-> 0, ret |-> None, retry |-> NoResponse, entry |-> None,
   wire |-> <<>>, logins |-> <<>>, seen |-> <<>>,
   idset |-> FALSE, previd |-> None,
   e |-> NoExc, raised |-> NoExc, result |-> NoResult]

Init ==
  /\ username \in CredValues("admin")
  /\ password \in CredValues("Harbor12345")
  /\ baseurl \in CredValues("https://registry.example.com")
  /\ timings \in BOOLEAN
  /\ http_log_debug \in BOOLEAN
  /\ times = <<>>
  /\ session_id = None
  /\ attrs = InitAttrs
  /\ last_request_id = None
  /\ log = <<>>
  /\ nops = 0
  /\ call = [c \in Callers |-> IdleCall]

\* a request handed to the transport: requests.post / requests.get, and
\* requests.request with the keyword arguments request() built
SentApi(kind, method, url, cookie, kw) ==
  [kind |-> kind, method |-> method, url |-> url, cookie |-> cookie,
   ctype |-> kw.ctype, data |-> kw.data, body |-> kw.body]

Sent(kind, method, url, cookie) ==
  SentApi(kind, method, url, cookie, RequestKwargs(Absent))

Free(c) ==
  /\ call[c].pc \in {"idle", "done"}
  /\ nops < MaxOps
  /\ Len(log) < MaxLog

\* mutant: the failure is recorded but the operation does not end
RaiseWithoutLeaving(rec, exc) == [rec EXCEPT !.raised = exc]

\* the operation of caller c ends by raising exc
Raise(rec, exc) == [rec EXCEPT !.pc = "done", !.raised = exc]

\* the operation of caller c ends by returning
Return(rec, res) == [rec EXCEPT !.pc = "done", !.result = res]

\* mutant: _cs_request never logs in before the first attempt
NeedsLoginNever(session) == FALSE

\* mutant: _cs_request logs in before every first attempt
NeedsLoginAlways(session) == TRUE

\* `if not self.session_id` of _cs_request
NeedsLogin(session) == ~Truthy(session)

\* ---------------------------------------------------------------- actions
\* _cs_request entered through a verb wrapper: `if not self.session_id:
\* self.authenticate()`, otherwise straight to the first attempt
CsRequest(c, method) ==
  /\ Free(c)
  /\ \E url \in Urls, body \in Bodies :
       call' = [call EXCEPT ![c] =
                  [IdleCall EXCEPT !.op = "verb", !.method = method,
                                   !.url = url, !.body = body, !.attempt = 1,
                                   !.entry = session_id, !.ret = "send",
                                   !.pc = IF NeedsLogin(session_id) THEN "auth"
                                          ELSE "send"]]
  /\ nops' = nops + 1
  /\ UNCHANGED <<config, times, session_id, attrs, last_request_id, log>>

Get(c) == CsRequest(c, "GET")
Post(c) == CsRequest(c, "POST")
Put(c) == CsRequest(c, "PUT")
Delete(c) == CsRequest(c, "DELETE")

\* authenticate() called directly
Authenticate(c) ==
  /\ Free(c)
  /\ call' = [call EXCEPT ![c] =
                [IdleCall EXCEPT !.op = "authenticate", !.pc = "auth",
                                 !.entry = session_id, !.ret = "done"]]
  /\ nops' = nops + 1
  /\ UNCHANGED <<config, times, session_id, attrs, last_request_id, log>>

\* authenticate(): the credential checks, then requests.post(.../login)
AuthenticateSend(c) ==
  /\ call[c].pc = "auth"
  /\ LET rec == call[c]
         missing == MissingField(baseurl, username, password)
     IN call' = [call EXCEPT ![c] =
          IF missing # None
            THEN Raise(rec, Exc("AuthorizationFailure", "authenticate",
                                rec.attempt, 0, missing))
            ELSE [rec EXCEPT !.pc = "authwait",
                             !.wire = Append(rec.wire,
                                        Sent("login", "POST",
                                             baseurl \o "/login", Absent))]]
  /\ UNCHANGED <<config, times, session_id, attrs, last_request_id, log, nops>>

\* authenticate(): the login response arrives; 200 stores its cookie
AuthenticateRecv(c) ==
  /\ call[c].pc = "authwait"
  /\ \E resp \in LoginResponses :
       LET rec == call[c]
           got == [rec EXCEPT !.logins = Append(rec.logins, resp)]
       IN /\ session_id' = LoginSession(resp, session_id)
          /\ call' = [call EXCEPT ![c] =
               IF rec.ret = "done"
                 THEN Return(got, [NoResult EXCEPT !.returned = TRUE])
                 ELSE [got EXCEPT !.pc = rec.ret]]
  /\ UNCHANGED <<config, times, attrs, last_request_id, log, nops>>

\* _time_request -> request(), up to requests.request: the first attempt
\* passes cookies={'beegosessionID': self.session_id}, the retry passes no
\* cookies, and http_log_req reads kwargs['cookies'] when debugging
ApiSend(c) ==
  /\ call[c].pc = "send"
  /\ LET rec == call[c]
         cookie == IF rec.attempt = 1 THEN session_id ELSE Absent
         url == FullUrl(baseurl, rec.url)
         kw == RequestKwargs(rec.body)
     IN IF http_log_debug /\ cookie = Absent
          THEN /\ call' = [call EXCEPT ![c] =
                    Raise(rec, Exc("KeyError", "http_log_req", rec.attempt,
                                   0, "cookies"))]
               /\ log' = log
          ELSE /\ log' = Debug(log, http_log_debug,
                               HttpLogReq(rec.method, url, cookie, kw))
               /\ call' = [call EXCEPT ![c] =
                    [rec EXCEPT !.pc = "wait",
                                !.idset = "last_request_id" \in attrs,
                                !.previd = last_request_id,
                                !.wire = Append(rec.wire,
                                           SentApi("api", rec.method, url,
                                                   cookie, kw))]]
  /\ UNCHANGED <<config, times, session_id, attrs, last_request_id, nops>>

\* the server's answers to the API request in flight: any response to a first
\* attempt, the answer fixed beforehand to a retry
Answers(rec) == IF rec.attempt = 1 THEN Responses ELSE {rec.retry}

\* the rest of request() and _time_request, and the try/except of
\* _cs_request around them
ApiRecv(c) ==
  /\ call[c].pc = "wait"
  /\ \E resp \in Answers(call[c]) :
       LET rec == call[c]
           out == RequestOutcome(resp, rec.attempt)
           got == [rec EXCEPT !.seen = Append(rec.seen, resp)]
       IN /\ log' = Debug(log, http_log_debug, HttpLogResp(resp))
          /\ attrs' = IF out.setsId THEN attrs \cup {"last_request_id"}
                      ELSE attrs
          /\ last_request_id' = IF out.setsId THEN resp.reqid
                                ELSE last_request_id
          /\ times' = TimeRequest(times, timings, rec.method, rec.url,
                                  out.raised)
          /\ IF out.raised = NoExc
               THEN call' = [call EXCEPT ![c] =
                               Return(got, Result(resp, out.body))]
             ELSE IF ~Catches(out.raised)
               THEN call' = [call EXCEPT ![c] = Raise(got, out.raised)]
             ELSE IF rec.attempt = 1
               THEN \E nxt \in RetryResponses :
                      call' = [call EXCEPT ![c] =
                                 [got EXCEPT !.e = out.raised,
                                             !.retry = nxt, !.pc = "unauth"]]
             ELSE call' = [call EXCEPT ![c] = Raise(got, rec.e)]
  /\ UNCHANGED <<config, session_id, nops>>

\* unauthenticate() called directly
Unauthenticate(c) ==
  /\ Free(c)
  /\ call' = [call EXCEPT ![c] =
                [IdleCall EXCEPT !.op = "unauthenticate", !.pc = "unauth",
                                 !.entry = session_id, !.ret = "done"]]
  /\ nops' = nops + 1
  /\ UNCHANGED <<config, times, session_id, attrs, last_request_id, log>>

\* unauthenticate(): the URL is built from self.protocol and self.host, then
\* requests.get(url, cookies=...); its response is not looked at.  In
\* _cs_request it is followed by authenticate() and the second attempt.
Logout(c) ==
  /\ call[c].pc = "unauth"
  /\ LET rec == call[c]
         sent == [rec EXCEPT !.wire = Append(rec.wire,
                    Sent("logout", "GET", "protocol://host/logout",
                         session_id))]
     IN call' = [call EXCEPT ![c] =
          IF ~({"protocol", "host"} \subseteq attrs)
            THEN Raise(rec, Exc("AttributeError", "unauthenticate",
                                rec.attempt, 0, "protocol"))
          ELSE IF rec.op = "verb"
            THEN [sent EXCEPT !.pc = "auth", !.attempt = 2]
          ELSE Return(sent, [NoResult EXCEPT !.returned = TRUE])]
  /\ UNCHANGED <<config, times, session_id, attrs, last_request_id, log, nops>>

\* reset_timings()
ResetTimings(c) ==
  /\ Free(c)
  /\ times' = <<>>
  /\ nops' = nops + 1
  /\ UNCHANGED <<config, session_id, attrs, last_request_id, log, call>>

Step(c) ==
  \/ Get(c) \/ Post(c) \/ Put(c) \/ Delete(c)
  \/ Authenticate(c) \/ AuthenticateSend(c) \/ AuthenticateRecv(c)
  \/ ApiSend(c) \/ ApiRecv(c)
  \/ Unauthenticate(c) \/ Logout(c)
  \/ ResetTimings(c)

\* one caller drives the instance (the design's assumption)
Next == Step(1)

Spec == Init /\ [][Next]_vars

\* two threads drive the same instance; their steps interleave
NextShared == \E c \in Callers : Step(c)

\* the shared instance is built with the constructor's defaults,
\* timings=False and http_log_debug=False
InitShared == Init /\ timings = FALSE /\ http_log_debug = FALSE

SpecShared == InitShared /\ [][NextShared]_vars

\* ----------------------------------------------------------------- claims
\* the verb calls in progress or last completed, one per caller
VerbCalls == {c \in Callers : call[c].op = "verb"}

\* requests of one kind the operation has handed to the transport
NumSent(rec, kind) ==
  Cardinality({i \in 1..Len(rec.wire) : rec.wire[i].kind = kind})

\* login requests sent after the operation's first API request
LoginsAfterFirstApi(rec) ==
  Cardinality({i \in 1..Len(rec.wire) :
                 /\ rec.wire[i].kind = "login"
                 /\ \E j \in 1..(i - 1) : rec.wire[j].kind = "api"})

\* the failure request() raises for the answer to the first attempt
FirstFailure(rec) == RequestOutcome(rec.seen[1], 1).raised

\* the first API request of the call was answered with Unauthorized
FirstUnauthorized(rec) ==
  Len(rec.seen) >= 1 /\ FirstFailure(rec).cls = "Unauthorized"

\* C1: every completed verb call whose first API request was answered with
\* Unauthorized has sent exactly one login after that request and exactly
\* two API requests (the first attempt and one retry).
C1_OneReauthOneRetry ==
  \A c \in VerbCalls :
    (call[c].pc = "done" /\ FirstUnauthorized(call[c]))
      => /\ LoginsAfterFirstApi(call[c]) = 1
         /\ NumSent(call[c], "api") = 2

\* C2: when the server answers both the first attempt and the retry of a verb
\* call with Unauthorized, the completed call has raised the failure built
\* from the first answer.
C2_OriginalFailureSurfaced ==
  \A c \in VerbCalls :
    (/\ call[c].pc = "done"
     /\ FirstUnauthorized(call[c])
     /\ RequestOutcome(call[c].retry, 2).raised.cls = "Unauthorized")
      => call[c].raised = FirstFailure(call[c])

\* the first API request of the call was answered with an error status
\* other than 401
FirstOtherError(rec) ==
  Len(rec.seen) >= 1 /\ rec.seen[1].status >= 400 /\ rec.seen[1].status # 401

\* C3: once the first API request of a verb call is answered with a non-401
\* error status the call is over and has raised that failure; it has sent one
\* API request, no logout, and no login after the failed request.
C3_OtherFailureRaisedAtOnce ==
  \A c \in VerbCalls :
    FirstOtherError(call[c])
      => /\ call[c].pc = "done"
         /\ call[c].raised # NoExc
         /\ call[c].raised.status = call[c].seen[1].status
         /\ call[c].raised.attempt = 1
         /\ Len(call[c].seen) = 1
         /\ NumSent(call[c], "api") = 1
         /\ NumSent(call[c], "logout") = 0
         /\ LoginsAfterFirstApi(call[c]) = 0

\* C3 witness: a verb call that logged in, was answered 500 and raised it
C3_Witness ==
  \E c \in VerbCalls :
    /\ call[c].pc = "done"
    /\ Len(call[c].seen) = 1 /\ call[c].seen[1].status = 500
    /\ call[c].raised.cls = "ClientException"
    /\ NumSent(call[c], "login") = 1

\* one of baseurl, username, password is empty or absent
CredentialMissing == \E v \in {baseurl, username, password} : v \in {None, ""}

\* C4: with a credential missing, every operation that has run the checks of
\* authenticate() is over with AuthorizationFailure raised by authenticate,
\* has sent no login request, and the session is what it was at its start.
C4_AuthenticateRefuses ==
  CredentialMissing =>
    \A c \in Callers :
      (call[c].op \in {"verb", "authenticate"} /\ call[c].pc # "auth")
        => /\ call[c].pc = "done"
           /\ call[c].raised.cls = "AuthorizationFailure"
           /\ call[c].raised.origin = "authenticate"
           /\ NumSent(call[c], "login") = 0
           /\ call[c].wire = <<>>
           /\ session_id = call[c].entry

\* C4 witness: authenticate() called with an empty password has raised
C4_Witness ==
  \E c \in Callers :
    /\ call[c].op = "authenticate" /\ call[c].pc = "done"
    /\ password = "" /\ Truthy(baseurl) /\ Truthy(username)
    /\ call[c].raised.cls = "AuthorizationFailure"
    /\ call[c].raised.detail = "password"

\* C5: a verb call started with no session stored sends the login POST first;
\* when the login is answered 200 its cookie is the stored session from then
\* until the call logs in again, the API request that follows carries that
\* cookie, and an answer with a success status ends the call returning the
\* decoded JSON body.
C5_LoginThenRequest ==
  \A c \in VerbCalls :
    ~Truthy(call[c].entry) =>
      /\ Len(call[c].wire) >= 1 => call[c].wire[1].kind = "login"
      /\ (Len(call[c].logins) = 1 /\ call[c].logins[1].status = 200)
           => /\ session_id = call[c].logins[1].cookie
              /\ Len(call[c].wire) >= 2
                   => /\ call[c].wire[2].kind = "api"
                      /\ call[c].wire[2].cookie = call[c].logins[1].cookie
      /\ (Len(call[c].seen) >= 1 /\ call[c].seen[1].status < 400)
           => /\ call[c].pc = "done"
              /\ call[c].raised = NoExc
              /\ call[c].result.returned
              /\ call[c].result.status = call[c].seen[1].status
              /\ call[c].result.body =
                   (IF call[c].seen[1].text = JsonText THEN "dict(id=2)"
                    ELSE None)

\* C5 witness: no session, login answered 200 with cookie s1, GET sent with
\* s1, answered 200 with a JSON body, which is returned decoded
C5_Witness ==
  \E c \in VerbCalls :
    /\ ~Truthy(call[c].entry) /\ call[c].pc = "done"
    /\ call[c].method = "GET"
    /\ Len(call[c].wire) = 2
    /\ call[c].wire[1].kind = "login"
    /\ call[c].logins[1] = [status |-> 200, cookie |-> "s1"]
    /\ call[c].wire[2].kind = "api" /\ call[c].wire[2].cookie = "s1"
    /\ session_id = "s1"
    /\ call[c].seen[1] = Response(200, JsonText, "req-1")
    /\ call[c].result.returned /\ call[c].result.body = "dict(id=2)"

\* C6: when the server answers the first attempt of a verb call with
\* Unauthorized and the retry with a success status, the completed call has
\* raised nothing and returned the decoded body of the retry's answer.
C6_RetrySucceeds ==
  \A c \in VerbCalls :
    (/\ call[c].pc = "done"
     /\ FirstUnauthorized(call[c])
     /\ call[c].retry.status = 200)
      => /\ call[c].raised = NoExc
         /\ call[c].result = Result(call[c].retry, ParseBody(call[c].retry))

\* C7: no part of an emitted debug line is a session cookie value in
\* plaintext, and the value logged for the session cookie is its redacted
\* form.
C7_NoSecretInLog ==
  \A i \in 1..Len(log) : \A j \in 1..Len(log[i]) :
    /\ log[i][j] \notin Tokens
    /\ (j > 1 /\ log[i][j - 1] = "beegosessionID")
         => log[i][j] \in {Redact(v, None) : v \in Tokens \cup {None}}

\* C8: once the first API request of a verb call is answered 400 with a body
\* containing "Connection refused" or "actively refused", the call is over
\* with ConnectionRefused raised by request() (not the failure classified from
\* status 400), one API request sent, no logout and no login after it.
C8_ConnectionRefused ==
  \A c \in VerbCalls :
    (/\ Len(call[c].seen) >= 1
     /\ call[c].seen[1].status = 400
     /\ \/ Contains(call[c].seen[1].text, "Connection refused")
        \/ Contains(call[c].seen[1].text, "actively refused"))
      => /\ call[c].pc = "done"
         /\ call[c].raised.cls = "ConnectionRefused"
         /\ call[c].raised.origin = "request"
         /\ call[c].raised # FromResponse(call[c].seen[1], 1)
         /\ NumSent(call[c], "api") = 1
         /\ NumSent(call[c], "logout") = 0
         /\ LoginsAfterFirstApi(call[c]) = 0

\* C8 witness: a call answered 400 "actively refused" raised ConnectionRefused
C8_Witness ==
  \E c \in VerbCalls :
    /\ call[c].pc = "done"
    /\ call[c].seen = <<Response(400, ActivelyText, None)>>
    /\ call[c].raised.cls = "ConnectionRefused"

\* the call has logged in again after its first attempt and got an answer
ReauthAnswered(rec) ==
  Len(rec.logins) > (IF Truthy(rec.entry) THEN 0 ELSE 1)

\* C9: after a verb call has observed Unauthorized and run its logout step,
\* and until its re-authentication is answered, no session is stored.
C9_SessionClearedOn401 ==
  \A c \in VerbCalls :
    (call[c].e # NoExc /\ call[c].pc # "unauth" /\ ~ReauthAnswered(call[c]))
      => ~Truthy(session_id)

\* C10: no verb call ends with a failure raised by the logout step.
C10_LogoutFailureNotSurfaced ==
  \A c \in VerbCalls :
    call[c].pc = "done" => call[c].raised.origin # "unauthenticate"

\* the API requests the operation has sent, in order
ApiRequests(rec) == SelectSeq(rec.wire, LAMBDA r : r.kind = "api")

\* every API request of a verb call given a body option carries Content-Type
\* application/json, no body option, and data that decodes to the structure
JsonBodySent ==
  \A c \in VerbCalls :
    call[c].body # Absent =>
      \A i \in 1..Len(ApiRequests(call[c])) :
        LET r == ApiRequests(call[c])[i]
        IN /\ r.ctype = "application/json"
           /\ r.body = Absent
           /\ r.data # Absent
           /\ JsonLoads(<<r.data>>) = call[c].body

\* C11: a verb call given a JSON body option sends requests that carry
\* Content-Type application/json, no body option and data that decodes to the
\* given structure; and when its first request was answered Unauthorized the
\* completed call has sent a second request with the same data, method and
\* URL as the first.
C11_JsonBodyAndRetry ==
  /\ JsonBodySent
  /\ \A c \in VerbCalls :
       (call[c].body # Absent /\ call[c].pc = "done"
          /\ FirstUnauthorized(call[c]))
         => /\ Len(ApiRequests(call[c])) = 2
            /\ ApiRequests(call[c])[2].data = ApiRequests(call[c])[1].data
            /\ ApiRequests(call[c])[2].method = ApiRequests(call[c])[1].method
            /\ ApiRequests(call[c])[2].url = ApiRequests(call[c])[1].url

\* C12 as stated: while an API request of a verb call is in flight a session
\* is stored.
C12_SessionBeforeRequest ==
  \A c \in VerbCalls : call[c].pc = "wait" => Truthy(session_id)

\* C12 amended: a verb call started with no session sends the login first,
\* and its first API request carries the cookie of that login when it was
\* answered 200 and no session cookie otherwise (the request is sent all the
\* same); a call started with a session sends that session.
C12_LoginAttemptedBeforeRequest ==
  \A c \in VerbCalls :
    Len(ApiRequests(call[c])) >= 1 =>
      IF Truthy(call[c].entry)
        THEN /\ call[c].wire[1].kind = "api"
             /\ call[c].wire[1].cookie = call[c].entry
        ELSE /\ call[c].wire[1].kind = "login"
             /\ Len(call[c].logins) >= 1
             /\ call[c].wire[2].kind = "api"
             /\ call[c].wire[2].cookie =
                  (IF call[c].logins[1].status = 200
                     THEN call[c].logins[1].cookie ELSE None)

\* C12 witness: the login was answered 401 and the API request is in flight
\* with no session stored and no session cookie
C12_Witness ==
  \E c \in VerbCalls :
    /\ call[c].pc = "wait"
    /\ call[c].logins = <<[status |-> 401, cookie |-> None]>>
    /\ session_id = None
    /\ call[c].wire[2].kind = "api" /\ call[c].wire[2].cookie = None

\* C13: a completed verb call whose first request was answered Unauthorized
\* has sent a second API request, which carries not the cookie of the first
\* but the cookie returned by the login sent in between.
C13_RetryCarriesFreshCookie ==
  \A c \in VerbCalls :
    (call[c].pc = "done" /\ FirstUnauthorized(call[c]))
      => /\ Len(ApiRequests(call[c])) = 2
         /\ ReauthAnswered(call[c])
         /\ ApiRequests(call[c])[2].cookie # ApiRequests(call[c])[1].cookie
         /\ ApiRequests(call[c])[2].cookie =
              call[c].logins[Len(call[c].logins)].cookie

\* steps an operation in this position can still take before it is over
Rank(rec) ==
  CASE rec.pc \in {"idle", "done"} -> 0
    [] rec.pc = "wait" -> IF rec.attempt = 1 THEN 6 ELSE 1
    [] rec.pc = "send" -> IF rec.attempt = 1 THEN 7 ELSE 2
    [] rec.pc = "authwait" -> IF rec.attempt = 1 THEN 8 ELSE 3
    [] rec.pc = "auth" -> IF rec.attempt = 1 THEN 9 ELSE 4
    [] rec.pc = "unauth" -> 5

\* the steps inside an operation of caller c
Progress(c) ==
  \/ AuthenticateSend(c) \/ AuthenticateRecv(c)
  \/ ApiSend(c) \/ ApiRecv(c) \/ Logout(c)

\* C14: a verb call never has sent more than two API requests, more than one
\* login after its first request or more than one logout; an operation in
\* progress can always take a step, and every step brings it nearer to its
\* end (so it ends after at most nine steps, whatever the server answers).
C14_BoundedCall ==
  /\ [](\A c \in VerbCalls :
          /\ NumSent(call[c], "api") <= 2
          /\ LoginsAfterFirstApi(call[c]) <= 1
          /\ NumSent(call[c], "logout") <= 1)
  /\ [](\A c \in Callers :
          call[c].pc \notin {"idle", "done"} => ENABLED Progress(c))
  /\ [][\A c \in Callers :
          (call[c].pc \notin {"idle", "done"} /\ call'[c] # call[c])
            => Rank(call'[c]) < Rank(call[c])]_vars

\* C14 witness: a verb call answered Unauthorized is over
C14_Witness ==
  \E c \in VerbCalls :
    /\ call[c].pc = "done" /\ FirstUnauthorized(call[c])
    /\ NumSent(call[c], "api") = 1

\* C15: authenticate() whose login was answered with a status other than 200
\* has returned without raising and the stored session is what it was when
\* authenticate() was called.
C15_FailedLoginKeepsSession ==
  \A c \in Callers :
    (/\ call[c].op = "authenticate"
     /\ Len(call[c].logins) = 1
     /\ call[c].logins[1].status # 200)
      => /\ call[c].pc = "done"
         /\ call[c].raised = NoExc
         /\ call[c].result.returned
         /\ session_id = call[c].entry
         /\ NumSent(call[c], "login") = 1

\* C15 witness: authenticate() called with token s1 stored, answered 401;
\* s1 is still stored
C15_Witness ==
  \E c \in Callers :
    /\ call[c].op = "authenticate" /\ call[c].pc = "done"
    /\ call[c].entry = "s1"
    /\ call[c].logins = <<[status |-> 401, cookie |-> None]>>
    /\ call[c].raised = NoExc
    /\ session_id = "s1"

\* C16: unauthenticate() called directly has, when it is over, sent exactly
\* one GET to the logout endpoint carrying the stored session cookie, raised
\* nothing, and left the stored session as it was.
C16_LogoutSent ==
  \A c \in Callers :
    (call[c].op = "unauthenticate" /\ call[c].pc = "done")
      => /\ Len(call[c].wire) = 1
         /\ call[c].wire[1].kind = "logout"
         /\ call[c].wire[1].method = "GET"
         /\ call[c].wire[1].cookie = call[c].entry
         /\ call[c].raised = NoExc
         /\ session_id = call[c].entry

\* the answer to the operation's most recent API request
LastSeen(rec) == rec.seen[Len(rec.seen)]

\* request() raises ConnectionRefused for this answer
Refused(resp) ==
  /\ resp.status = 400
  /\ \/ Contains(resp.text, "Connection refused")
     \/ Contains(resp.text, "actively refused")

\* the verb call holds the most recent HTTP exchange of request(): it has an
\* answer and no request of it is in flight
Exchanged(rec) == rec.op = "verb" /\ Len(rec.seen) >= 1 /\ rec.pc # "wait"

\* C17 as stated: after an exchange the last-seen request id is set and is
\* the correlation header of the answer (None when it has none).
C17_LastRequestIdIsLatest ==
  \A c \in Callers :
    Exchanged(call[c])
      => /\ "last_request_id" \in attrs
         /\ last_request_id = LastSeen(call[c]).reqid

\* C17 amended: that holds after every exchange except one that raises
\* ConnectionRefused, which leaves the last-seen request id as it was before
\* the exchange (the id of an earlier answer, or not set at all).
C17_LastRequestIdUnlessRefused ==
  \A c \in Callers :
    Exchanged(call[c])
      => IF Refused(LastSeen(call[c]))
           THEN /\ ("last_request_id" \in attrs) = call[c].idset
                /\ last_request_id = call[c].previd
           ELSE /\ "last_request_id" \in attrs
                /\ last_request_id = LastSeen(call[c]).reqid

\* C17 witness: a call that raised ConnectionRefused for an answer with id
\* req-2 while the id of an earlier answer, req-1, is still the last seen
C17_Witness ==
  \E c \in VerbCalls :
    /\ call[c].pc = "done"
    /\ call[c].raised.cls = "ConnectionRefused"
    /\ LastSeen(call[c]).reqid = "req-2"
    /\ call[c].previd = "req-1"
    /\ last_request_id = "req-1"

\* caller c receives the answer to an API request in this step
Answered(c) == call[c].pc = "wait" /\ call'[c].pc # "wait"

\* ... and request() returns it without raising
AnsweredOk(c) ==
  /\ Answered(c)
  /\ call'[c].pc = "done" /\ call'[c].raised = NoExc /\ call'[c].result.returned

\* C18: in every step the timing log either stays as it is, or gets exactly one
\* entry appended at its end by an API request that returned without raising
\* while timing is enabled, or is emptied by reset_timings (a step that starts
\* no call and answers none); a request that raises, and any request with
\* timing disabled, leaves it as it is.
C18_TimingsAppendOnly ==
  [][/\ \A c \in Callers :
          Answered(c) =>
            times' = (IF timings /\ AnsweredOk(c)
                        THEN Append(times, <<call[c].method, call[c].url>>)
                        ELSE times)
     /\ (\A c \in Callers : ~Answered(c)) =>
          \/ times' = times
          \/ /\ times' = <<>>
             /\ call' = call
             /\ nops' = nops + 1]_vars

\* C18 witness: with timing enabled a first call returned and left one entry,
\* and a second call raised and added none
C18_Witness ==
  \E c \in VerbCalls :
    /\ timings
    /\ nops = 2
    /\ call[c].pc = "done" /\ call[c].raised.cls = "ClientException"
    /\ Len(times) = 1

\* the API request of caller b in flight carries the token that caller a's
\* first request carried
SameTokenInFlight(a, b) ==
  /\ a # b
  /\ call[a].op = "verb" /\ call[b].op = "verb"
  /\ call[b].pc = "wait"
  /\ Len(ApiRequests(call[a])) >= 1
  /\ Truthy(ApiRequests(call[a])[1].cookie)
  /\ LastSeen([seen |-> ApiRequests(call[b])]).cookie =
       ApiRequests(call[a])[1].cookie

\* caller a's recovery has sent a logout or a login while the request of
\* caller b carrying the same token is in flight
RecoveryRace ==
  \E a, b \in Callers :
    /\ SameTokenInFlight(a, b)
    /\ NumSent(call[a], "logout") + LoginsAfterFirstApi(call[a]) >= 1

\* C19: with two callers, whenever one caller's verb call was answered
\* Unauthorized and is over while the other caller's API request carrying the
\* same token is in flight, the first caller's recovery has logged out or
\* logged in again under that request.
C19_RecoveryRacesInFlight ==
  \A a, b \in Callers :
    (/\ SameTokenInFlight(a, b)
     /\ call[a].pc = "done" /\ FirstUnauthorized(call[a]))
      => NumSent(call[a], "logout") + LoginsAfterFirstApi(call[a]) >= 1

\* no recovery ever races a request in flight
NoRecoveryRace == ~RecoveryRace

\* C20: a verb call entered with a stored session whose first API request
\* is answered with anything but Unauthorized sends that one API request and
\* nothing else -- no login, no logout -- is over once the answer is
\* handled, and leaves the stored session as it found it.
C20_StoredSessionUntouched ==
  \A c \in VerbCalls :
    (/\ Truthy(call[c].entry)
     /\ Len(call[c].seen) >= 1
     /\ ~FirstUnauthorized(call[c]))
      => /\ call[c].pc = "done"
         /\ NumSent(call[c], "login") = 0
         /\ NumSent(call[c], "logout") = 0
         /\ NumSent(call[c], "api") = 1
         /\ ApiRequests(call[c])[1].cookie = call[c].entry
         /\ session_id = call[c].entry

\* a verb call on a stored session has returned a parsed answer
C20_Witness ==
  \E c \in VerbCalls :
    /\ call[c].entry = "s1"
    /\ call[c].pc = "done"
    /\ call[c].raised = NoExc
    /\ Len(call[c].seen) = 1 /\ call[c].seen[1].status = 200
    /\ session_id = "s1"

====
